---- MODULE Spec2Model ----
(***************************************************************************)
(* Model of the SynergySphere backend: the relational tables reached       *)
(* through DatabaseManager, the access-control predicates of auth.py, the  *)
(* request handlers of routers/projects.py, routers/tasks.py and           *)
(* routers/comments.py, and the fanout methods of NotificationService.     *)
(*                                                                         *)
(* A handler is an operator from the current tables and the request's      *)
(* inputs to a response: the HTTP status code, the tables after the        *)
(* request, and the trace fx of what the request did from its first write  *)
(* on: Store writes, the Store reads that follow, notification inserts and *)
(* email attempts, in the order of the code.  An action applies one        *)
(* handler; create_project and add_project_member, whose statements are    *)
(* committed one by one, and the overlapping runs of the deadline job of   *)
(* scheduler.py are run statement by statement, so that the requests of    *)
(* several server processes interleave.                                    *)
(***************************************************************************)
EXTENDS Integers, Sequences, FiniteSets, TLC

\* ------------------------------------------------------------------ bounds
MaxProjects == 1
\* rows of project_members, over all projects
MaxMembers == 3
MaxTasks == 1
MaxComments == 1
MaxNotifications == 3
\* calendar days the clock may advance
MaxDay == 1
\* WebSocket connections opened over the life of the process
MaxSockets == 2
\* requests that may be in progress at once, and as many runs of the
\* deadline job
MaxRunning == 2

\* ------------------------------------------------------------- vocabulary
\* Python None / SQL NULL for an optional integer id.
None == 0

\* The users table: three registered users; user u has name u and email u.
\* Registration is not modelled, so the table never changes.
Users == {1, 2, 3}
\* An address no user row holds.
UnknownEmail == 4
Emails == Users \cup {UnknownEmail}

Roles == {"owner", "admin", "member"}
TaskStatus == {"todo", "in_progress", "done"}
\* What a status-update body may carry: the three statuses and another string.
RequestedStatus == TaskStatus \cup {"archived"}

\* What a task's due_date may be: None or a calendar day.
DueDates == {None} \cup (1..(MaxDay + 4))

VARIABLES
    projects,         \* table projects: row i has id i
    project_members,  \* table project_members, in joined_at order
    tasks,            \* table tasks: row i has id i
    comments,         \* table comments
    notifications,    \* table notifications: row i has id i
    today,            \* the calendar day of the clock (CURDATE, date.today)
    last,             \* the last request and its response
    active_connections,   \* ConnectionManager.active_connections
    project_connections,  \* ConnectionManager.project_connections
    handlers,         \* the endpoint coroutine of each WebSocket
    running           \* requests and job runs between two of their Store calls

tables == <<projects, project_members, tasks, comments, notifications>>
sockets == <<active_connections, project_connections, handlers>>

vars == <<projects, project_members, tasks, comments, notifications, today, last,
          active_connections, project_connections, handlers, running>>

\* --------------------------------------------------------- DatabaseManager
\* A fetch_one result is <<>> (None) or <<row>>.
get_user_by_id(user_id) ==
    IF user_id \in Users
    THEN <<[id |-> user_id, name |-> user_id, email |-> user_id]>>
    ELSE <<>>

get_user_by_email(email) ==
    IF email \in Users
    THEN <<[id |-> email, name |-> email, email |-> email]>>
    ELSE <<>>

get_project_by_id(project_id) ==
    IF project_id \in 1..Len(projects) THEN <<projects[project_id]>> ELSE <<>>

RECURSIVE member_rows(_, _)
member_rows(project_id, i) ==
    IF i > Len(project_members) THEN <<>>
    ELSE IF project_members[i].project_id = project_id
         THEN <<[id |-> project_members[i].user_id,
                 name |-> project_members[i].user_id,
                 email |-> project_members[i].user_id,
                 role |-> project_members[i].role,
                 joined_at |-> i]>> \o member_rows(project_id, i + 1)
         ELSE member_rows(project_id, i + 1)

\* SELECT u.id, u.name, u.email, pm.role, pm.joined_at ... ORDER BY pm.joined_at
get_project_members(project_id) == member_rows(project_id, 1)

\* class DatabaseManager defines no get_task_by_id: the call raises
\* AttributeError before any statement reaches the Store, and hands no row
\* to its caller.
get_task_by_id(task_id) == [fx |-> <<>>, raised |-> TRUE, rows |-> <<>>]

DbCreateProject(table, owner_id) ==
    Append(table, [id |-> Len(table) + 1, owner_id |-> owner_id])

DbAddProjectMember(table, project_id, user_id, role) ==
    Append(table, [project_id |-> project_id, user_id |-> user_id, role |-> role])

\* Table project_members, had it no key: no insert is refused.
membership_exists_unkeyed(table, project_id, user_id) == FALSE

\* The key of table project_members: one row per project and user.  An
\* insert that would make a second one raises.
membership_exists(table, project_id, user_id) ==
    \E i \in 1..Len(table) :
        table[i].project_id = project_id /\ table[i].user_id = user_id

\* Timestamps are kept to the day.
DbCreateTask(table, project_id, assignee_id, due_date, created_by) ==
    Append(table, [id |-> Len(table) + 1, project_id |-> project_id,
                   assignee_id |-> assignee_id, due_date |-> due_date,
                   status |-> "todo", created_by |-> created_by,
                   updated_at |-> today])

\* UPDATE tasks SET status = %s, updated_at = CURRENT_TIMESTAMP WHERE id = %s
DbUpdateTaskStatus(table, task_id, status) ==
    [table EXCEPT ![task_id].status = status, ![task_id].updated_at = today]

\* Of the body only the day count of a deadline reminder is kept (None in
\* every other text).
DbCreateNotification(table, user_id, title, body, project_id, task_id) ==
    Append(table, [user_id |-> user_id, project_id |-> project_id,
                   task_id |-> task_id, title |-> title, body |-> body,
                   is_read |-> FALSE, created_at |-> today])

DbCreateComment(table, project_id, task_id, author_id) ==
    Append(table, [project_id |-> project_id, task_id |-> task_id,
                   author_id |-> author_id])

\* ------------------------------------------------------------------- auth
\* check_project_access, had it asked for an admin or owner role.
check_project_access_by_role(user_id, project_id) ==
    LET project == get_project_by_id(project_id) IN
    IF project = <<>> THEN FALSE
    ELSE IF project[1].owner_id = user_id THEN TRUE
    ELSE LET members == get_project_members(project_id) IN
         \E i \in 1..Len(members) :
             members[i].id = user_id /\ members[i].role \in {"admin", "owner"}

check_project_access(user_id, project_id) ==
    LET project == get_project_by_id(project_id) IN
    IF project = <<>> THEN FALSE
    ELSE IF project[1].owner_id = user_id THEN TRUE
    ELSE LET members == get_project_members(project_id) IN
         \E i \in 1..Len(members) : members[i].id = user_id

\* check_project_admin, had it forgotten to look at the role.
check_project_admin_any_role(user_id, project_id) ==
    LET project == get_project_by_id(project_id) IN
    IF project = <<>> THEN FALSE
    ELSE IF project[1].owner_id = user_id THEN TRUE
    ELSE LET members == get_project_members(project_id) IN
         \E i \in 1..Len(members) : members[i].id = user_id

check_project_admin(user_id, project_id) ==
    LET project == get_project_by_id(project_id) IN
    IF project = <<>> THEN FALSE
    ELSE IF project[1].owner_id = user_id THEN TRUE
    ELSE LET members == get_project_members(project_id) IN
         \E i \in 1..Len(members) :
             members[i].id = user_id /\ members[i].role \in {"admin", "owner"}

\* -------------------------------------------------------------- responses
\* One thing a request did: a Store write by a user (what = the operation), a
\* Store read (what = the query), a notification insert for a user (what =
\* the title) or an email to a user (what = the template); ok = it succeeded.
Fx(kind, user, what, ok) == [kind |-> kind, user |-> user, what |-> what, ok |-> ok]

\* How a piece of code ended: the trace of what it did, and whether it ended
\* by raising an exception.
Returned(fx) == [fx |-> fx, raised |-> FALSE]
Raised(fx) == [fx |-> fx, raised |-> TRUE]

\* first; rest -- rest runs only when first returned.
Then(first, rest) ==
    IF first.raised THEN first
    ELSE [fx |-> first.fx \o rest.fx, raised |-> rest.raised]

\* try: body / except Exception as e: logger.error(...)
except_Exception(body) == Returned(body.fx)

\* The response with this code that writes nothing.
Reply(code) ==
    [code |-> code, projects |-> projects, project_members |-> project_members,
     tasks |-> tasks, comments |-> comments, notifications |-> notifications,
     fx |-> <<>>]

RECURSIVE apply_inserts(_, _, _, _, _)
\* The notifications table after the successful inserts of fx[i..].
apply_inserts(table, fx, i, project_id, task_id) ==
    IF i > Len(fx) THEN table
    ELSE IF fx[i].kind = "insert" /\ fx[i].ok
         THEN apply_inserts(
                  DbCreateNotification(table, fx[i].user, fx[i].what, None,
                                       project_id, task_id),
                  fx, i + 1, project_id, task_id)
         ELSE apply_inserts(table, fx, i + 1, project_id, task_id)

\* ------------------------------------------------------ Store and Mailer
\* env is what the collaborators do during the request: env.failing is the
\* set of recipients whose notification insert the Store rejects, env.mail_ok
\* whether the SMTP session succeeds, env.read_ok whether the Store answers
\* the reads made after the request's first write.
Envs == [failing : SUBSET Users, mail_ok : BOOLEAN, read_ok : BOOLEAN]

\* A write of the request itself.
store_write(current_user, what) == Returned(<<Fx("write", current_user, what, TRUE)>>)

\* execute_query of a SELECT: the rows, or the connector's exception.
store_read(what, env) ==
    IF env.read_ok THEN Returned(<<Fx("read", None, what, TRUE)>>)
    ELSE Raised(<<Fx("read", None, what, FALSE)>>)

\* DatabaseManager.create_notification: the insert, or the connector's
\* exception.
db_create_notification(user_id, title, env) ==
    IF user_id \in env.failing THEN Raised(<<Fx("insert", user_id, title, FALSE)>>)
    ELSE Returned(<<Fx("insert", user_id, title, TRUE)>>)

\* EmailService.send_*_email and scheduler.send_email: one attempt; every
\* failure is caught inside.
send_email(to_email, template, env) ==
    Returned(<<Fx("email", to_email, template, env.mail_ok)>>)

\* ---------------------------------------------------- NotificationService
\* create_notification: one insert attempt; a Store failure is caught and
\* reported as False.
create_notification(user_id, title, env) ==
    except_Exception(db_create_notification(user_id, title, env))

\* send_task_assignment_notifications, had it sent the email before it
\* created the in-app row.
send_task_assignment_email_first(task_data, assignee_data, assigner_data, project_data, env) ==
    except_Exception(
        IF assignee_data = <<>> \/ project_data = <<>> \/ task_data = <<>> THEN Raised(<<>>)
        ELSE Then(IF assigner_data = <<>> THEN Raised(<<>>)
                  ELSE send_email(assignee_data[1].email, "task_assignment", env),
                  create_notification(assignee_data[1].id, "New Task Assigned", env)))

\* A None argument makes the first subscript raise TypeError, which the
\* method's except clause catches.
send_task_assignment_notifications(task_data, assignee_data, assigner_data, project_data, env) ==
    except_Exception(
        IF assignee_data = <<>> \/ project_data = <<>> \/ task_data = <<>> THEN Raised(<<>>)
        ELSE Then(create_notification(assignee_data[1].id, "New Task Assigned", env),
                  IF assigner_data = <<>> THEN Raised(<<>>)
                  ELSE send_email(assignee_data[1].email, "task_assignment", env)))

RECURSIVE status_loop(_, _, _, _, _, _, _)
\* The for loop of send_task_status_notifications from member i on.  A row
\* without the key the loop subscripts raises KeyError.
status_loop(project_members_, i, task_data, updater_data, project_data, new_status, env) ==
    IF i > Len(project_members_) THEN Returned(<<>>)
    ELSE LET member == project_members_[i] IN
         IF "user_id" \notin DOMAIN member THEN Raised(<<>>)
         ELSE IF updater_data = <<>> THEN Raised(<<>>)
         ELSE IF member.user_id # updater_data[1].id
              THEN IF task_data = <<>> THEN Raised(<<>>)
                   ELSE Then(create_notification(member.user_id, "Task Status Update", env),
                        Then(IF new_status = "done" /\ member.user_id = project_data[1].owner_id
                             THEN send_email(member.email, "task_status_update", env)
                             ELSE Returned(<<>>),
                             status_loop(project_members_, i + 1, task_data, updater_data,
                                         project_data, new_status, env)))
              ELSE status_loop(project_members_, i + 1, task_data, updater_data,
                               project_data, new_status, env)

\* The body of send_task_status_notifications, without its try/except.
send_task_status_notifications_uncaught(task_data, updater_data, project_data, new_status, env) ==
    IF project_data = <<>> THEN Raised(<<>>)
    ELSE Then(store_read("get_project_members", env),
              status_loop(get_project_members(project_data[1].id), 1, task_data,
                          updater_data, project_data, new_status, env))

send_task_status_notifications(task_data, updater_data, project_data, new_status, env) ==
    except_Exception(
        IF project_data = <<>> THEN Raised(<<>>)
        ELSE Then(store_read("get_project_members", env),
                  status_loop(get_project_members(project_data[1].id), 1, task_data,
                              updater_data, project_data, new_status, env)))

RECURSIVE member_added_loop_by_id(_, _, _, _, _)
\* The loop of send_project_member_added_notifications, had it read the key id
\* and skipped the adder only.
member_added_loop_by_id(project_members_, i, new_member_data, adder_data, env) ==
    IF i > Len(project_members_) THEN Returned(<<>>)
    ELSE LET member == project_members_[i] IN
         IF member.id # adder_data[1].id
         THEN Then(create_notification(member.id, "New Team Member", env),
                   member_added_loop_by_id(project_members_, i + 1, new_member_data,
                                           adder_data, env))
         ELSE member_added_loop_by_id(project_members_, i + 1, new_member_data,
                                      adder_data, env)

RECURSIVE member_added_loop(_, _, _, _, _)
\* The for loop of send_project_member_added_notifications from member i on.
member_added_loop(project_members_, i, new_member_data, adder_data, env) ==
    IF i > Len(project_members_) THEN Returned(<<>>)
    ELSE LET member == project_members_[i] IN
         IF "user_id" \notin DOMAIN member THEN Raised(<<>>)
         ELSE IF member.user_id \notin {new_member_data[1].id, adder_data[1].id}
              THEN Then(create_notification(member.user_id, "New Team Member", env),
                        member_added_loop(project_members_, i + 1, new_member_data,
                                          adder_data, env))
              ELSE member_added_loop(project_members_, i + 1, new_member_data,
                                     adder_data, env)

send_project_member_added_notifications(project_data, new_member_data, adder_data, env) ==
    except_Exception(
        IF new_member_data = <<>> \/ project_data = <<>> \/ adder_data = <<>> THEN Raised(<<>>)
        ELSE Then(create_notification(new_member_data[1].id, "Added to Project", env),
             Then(store_read("get_project_members", env),
                  member_added_loop(get_project_members(project_data[1].id), 1,
                                    new_member_data, adder_data, env))))

RECURSIVE comment_loop(_, _, _, _)
\* The for loop of send_comment_notifications from member i on.
comment_loop(project_members_, i, author_data, env) ==
    IF i > Len(project_members_) THEN Returned(<<>>)
    ELSE LET member == project_members_[i] IN
         IF "user_id" \notin DOMAIN member THEN Raised(<<>>)
         ELSE IF author_data = <<>> THEN Raised(<<>>)
         ELSE IF member.user_id # author_data[1].id
              THEN Then(create_notification(member.user_id, "New Comment", env),
                        comment_loop(project_members_, i + 1, author_data, env))
              ELSE comment_loop(project_members_, i + 1, author_data, env)

send_comment_notifications(author_data, project_data, task_data, env) ==
    except_Exception(
        IF project_data = <<>> THEN Raised(<<>>)
        ELSE Then(store_read("get_project_members", env),
                  comment_loop(get_project_members(project_data[1].id), 1,
                               author_data, env)))

\* ------------------------------------------------------- routers/projects
\* The handler's "except Exception" answers 500 for what its body raised.
CodeOf(body) == IF body.raised THEN 500 ELSE 200

\* POST /projects/.  DatabaseManager.create_project inserts the project and
\* the owner's membership; the handler then reads both back for its response,
\* and answers 500 for what these reads raise, with the rows stored.
create_project(current_user, env) ==
    LET project_id == Len(projects) + 1
        body == Then(store_write(current_user, "create_project"),
                Then(store_write(current_user, "add_project_member"),
                Then(store_read("get_project_by_id", env),
                     store_read("get_project_members", env))))
    IN  [Reply(CodeOf(body)) EXCEPT
            !.projects = DbCreateProject(projects, current_user),
            !.project_members =
                DbAddProjectMember(project_members, project_id, current_user, "owner"),
            !.fx = body.fx]

\* GET /projects/{project_id}
get_project(current_user, project_id) ==
    IF ~check_project_access(current_user, project_id) THEN Reply(403)
    ELSE IF get_project_by_id(project_id) = <<>> THEN Reply(404)
    ELSE Reply(200)

\* GET /projects/{project_id}/progress
get_project_progress(current_user, project_id) ==
    IF ~check_project_access(current_user, project_id) THEN Reply(403)
    ELSE Reply(200)

\* add_project_member, had it asked for access instead of admin rights.
add_project_member_by_any_member(current_user, project_id, email, role, env) ==
    IF ~check_project_access(current_user, project_id) THEN Reply(403)
    ELSE LET user_to_add == get_user_by_email(email) IN
    IF user_to_add = <<>> THEN Reply(404)
    ELSE LET members == get_project_members(project_id) IN
    IF \E i \in 1..Len(members) : members[i].id = user_to_add[1].id THEN Reply(400)
    ELSE LET added == DbAddProjectMember(project_members, project_id,
                                         user_to_add[1].id, role)
             body == Then(store_write(current_user, "add_project_member"),
                          db_create_notification(user_to_add[1].id, "Added to Project", env))
         IN  [Reply(CodeOf(body)) EXCEPT
                 !.project_members = added,
                 !.notifications = apply_inserts(notifications, body.fx, 1, project_id, None),
                 !.fx = body.fx]

\* POST /projects/{project_id}/members.  The handler inserts the new member's
\* notification itself, through DatabaseManager: a failure of that insert is
\* not caught before the handler's own except clause.
add_project_member(current_user, project_id, email, role, env) ==
    IF ~check_project_admin(current_user, project_id) THEN Reply(403)
    ELSE LET user_to_add == get_user_by_email(email) IN
    IF user_to_add = <<>> THEN Reply(404)
    ELSE LET members == get_project_members(project_id) IN
    IF \E i \in 1..Len(members) : members[i].id = user_to_add[1].id THEN Reply(400)
    ELSE LET added == DbAddProjectMember(project_members, project_id,
                                         user_to_add[1].id, role)
             body == Then(store_write(current_user, "add_project_member"),
                          db_create_notification(user_to_add[1].id, "Added to Project", env))
         IN  [Reply(CodeOf(body)) EXCEPT
                 !.project_members = added,
                 !.notifications = apply_inserts(notifications, body.fx, 1, project_id, None),
                 !.fx = body.fx]

\* ---------------------------------------------------------- routers/tasks
\* GET /tasks/project/{project_id}
get_project_tasks(current_user, project_id) ==
    IF ~check_project_access(current_user, project_id) THEN Reply(403)
    ELSE Reply(200)

\* POST /tasks/project/{project_id}.  After the insert the handler asks
\* DatabaseManager for the created row; what that call raises is answered 500
\* by "except Exception", with the task stored.  For an assigned task the
\* rows of assignee, project and assigner are read next, outside the fanout's
\* try.
create_task(current_user, project_id, assignee_id, due_date, env) ==
    IF ~check_project_access(current_user, project_id) THEN Reply(403)
    ELSE LET created == DbCreateTask(tasks, project_id, assignee_id, due_date, current_user)
             task_id == Len(created)
             found == get_task_by_id(task_id)
             created_task_data == found.rows
             body ==
                 Then(store_write(current_user, "create_task"),
                 Then(found,
                      IF assignee_id # None
                      THEN Then(store_read("get_user_by_id", env),
                           Then(store_read("get_project_by_id", env),
                           Then(store_read("get_user_by_id", env),
                                send_task_assignment_notifications(
                                    created_task_data, get_user_by_id(assignee_id),
                                    get_user_by_id(current_user),
                                    get_project_by_id(project_id), env))))
                      ELSE Returned(<<>>)))
         IN  [Reply(CodeOf(body)) EXCEPT
                 !.tasks = created,
                 !.notifications = apply_inserts(notifications, body.fx, 1, project_id, task_id),
                 !.fx = body.fx]

\* PUT /tasks/{task_id}/status.  The task is asked of DatabaseManager after
\* the status is validated; what that call raises is answered 500.  Project
\* and updater are read after the update, outside the fanout's try.
update_task_status(current_user, task_id, new_status, env) ==
    IF new_status \notin {"todo", "in_progress", "done"} THEN Reply(400)
    ELSE LET found == get_task_by_id(task_id) IN
    IF found.raised THEN Reply(500)
    ELSE LET task_data == found.rows IN
    IF task_data = <<>> THEN Reply(404)
    ELSE IF task_data[1].assignee_id # current_user THEN Reply(403)
    ELSE LET body ==
                 Then(store_write(current_user, "update_task_status"),
                 Then(store_read("get_project_by_id", env),
                 Then(store_read("get_user_by_id", env),
                      send_task_status_notifications(
                          task_data, get_user_by_id(current_user),
                          get_project_by_id(task_data[1].project_id), new_status, env))))
         IN  [Reply(CodeOf(body)) EXCEPT
                 !.tasks = DbUpdateTaskStatus(tasks, task_id, new_status),
                 !.notifications = apply_inserts(notifications, body.fx, 1,
                                                 task_data[1].project_id, task_id),
                 !.fx = body.fx]

\* ------------------------------------------------------- routers/comments
\* GET /comments/
get_comments(current_user, project_id, task_id) ==
    IF project_id = None /\ task_id = None THEN Reply(400) ELSE Reply(200)

\* POST /comments/.  The handler has no "except HTTPException: raise": its
\* own 400 is caught by "except Exception" and answered as 500.
create_comment(current_user, project_id, task_id) ==
    IF project_id = None /\ task_id = None THEN Reply(500)
    ELSE [Reply(200) EXCEPT
             !.comments = DbCreateComment(comments, project_id, task_id, current_user),
             !.fx = <<Fx("write", current_user, "create_comment", TRUE)>>]

\* ---------------------------------------------------- routers/notifications
\* mark_notifications_read, had DatabaseManager had the method and marked
\* the rows of the ids it is handed.
mark_notifications_read_listed(current_user, notification_ids) ==
    IF notification_ids = {} THEN Reply(200)
    ELSE [Reply(200) EXCEPT
             !.notifications = [i \in 1..Len(notifications) |->
                 IF i \in notification_ids
                 THEN [notifications[i] EXCEPT !.is_read = TRUE]
                 ELSE notifications[i]],
             !.fx = <<Fx("write", current_user, "mark_notifications_read", TRUE)>>]

\* POST /notifications/mark-read.  For a request that lists ids the handler
\* calls DatabaseManager.mark_notifications_read, which class DatabaseManager
\* does not define: the AttributeError is answered 500 and no row is touched.
mark_notifications_read(current_user, notification_ids) ==
    IF notification_ids = {} THEN Reply(200)
    ELSE Reply(500)

\* -------------------------------------------------------------- scheduler
\* The WHERE clause and the joins of the job's SELECT, with the two
\* parameters of its BETWEEN.
due_for_reminder(task, tomorrow, three_days) ==
    /\ task.assignee_id # None /\ get_user_by_id(task.assignee_id) # <<>>
    /\ get_project_by_id(task.project_id) # <<>>
    /\ task.due_date # None
    /\ task.due_date >= tomorrow /\ task.due_date <= three_days
    /\ task.status # "done"

\* The rows the SELECT returns for a window.
select_upcoming(tomorrow, three_days) ==
    {t \in 1..Len(tasks) : due_for_reminder(tasks[t], tomorrow, three_days)}

\* The rows of a run whose clock readings and SELECT fall on one day.
upcoming_tasks == select_upcoming(today + 1, today + 3)

\* The count, had it been taken over the reminders of the other days.
reminder_count_other_days(table, user_id, task_id) ==
    Cardinality({i \in 1..Len(table) :
        /\ table[i].user_id = user_id /\ table[i].task_id = task_id
        /\ table[i].title = "Deadline Reminder" /\ table[i].created_at # today})

\* SELECT COUNT(*) ... WHERE user_id = %s AND task_id = %s
\* AND title = 'Deadline Reminder' AND DATE(created_at) = CURDATE()
reminder_count(table, user_id, task_id) ==
    Cardinality({i \in 1..Len(table) :
        /\ table[i].user_id = user_id /\ table[i].task_id = task_id
        /\ table[i].title = "Deadline Reminder" /\ table[i].created_at = today})

RECURSIVE deadline_loop(_, _, _, _)
\* The for loop of check_upcoming_deadlines from the i-th selected task on:
\* the trace, the notifications table, and whether an exception ended it.
\* The insert goes to DatabaseManager directly and is not caught in the loop.
deadline_loop(order, i, table, env) ==
    IF i > Len(order) THEN [fx |-> <<>>, raised |-> FALSE, table |-> table]
    ELSE LET task == tasks[order[i]]
             counted == store_read("reminder_count", env)
         IN  IF counted.raised
             THEN [fx |-> counted.fx, raised |-> TRUE, table |-> table]
             ELSE IF reminder_count(table, task.assignee_id, task.id) = 0
             THEN LET days_until_due == task.due_date - today
                      row == db_create_notification(task.assignee_id, "Deadline Reminder", env)
                  IN  IF row.raised
                      THEN [fx |-> counted.fx \o row.fx, raised |-> TRUE, table |-> table]
                      ELSE LET mail == send_email(task.assignee_id, "deadline_reminder", env)
                               rest == deadline_loop(order, i + 1,
                                           DbCreateNotification(table, task.assignee_id,
                                               "Deadline Reminder", days_until_due,
                                               None, task.id),
                                           env)
                           IN  [fx |-> counted.fx \o row.fx \o mail.fx \o rest.fx,
                                raised |-> rest.raised, table |-> rest.table]
             ELSE LET rest == deadline_loop(order, i + 1, table, env)
                  IN  [fx |-> counted.fx \o rest.fx, raised |-> rest.raised,
                       table |-> rest.table]

\* check_upcoming_deadlines as a function of the tables: a run that lies
\* within one calendar day and has the Store to itself; the actions take the
\* job statement by statement.  order is the order in which the SELECT, which
\* has no ORDER BY, returned the tasks.  Whatever the body raises is caught
\* and logged.
check_upcoming_deadlines(order, env) ==
    LET selected == store_read("upcoming_tasks", env) IN
    IF selected.raised THEN [Reply(200) EXCEPT !.fx = selected.fx]
    ELSE LET loop == deadline_loop(order, 1, notifications, env) IN
         [Reply(200) EXCEPT
             !.notifications = loop.table,
             !.fx = selected.fx \o loop.fx]

\* ------------------------------------------------------ routers/websocket
\* The WebSocket objects the server may be handed, and the project ids an
\* endpoint path may carry; 0 is the id that "if project_id:" takes for none.
Sockets == 1..MaxSockets
RoomIds == 0..MaxProjects

\* The endpoint coroutine of a WebSocket that has not been opened.
NotConnected ==
    [at |-> "new", endpoint |-> "none", project_id |-> None, i |-> 0,
     target |-> None, room0 |-> {}, sent |-> <<>>]

\* The endpoint coroutine of a WebSocket after it has returned or raised.
Ended == [NotConnected EXCEPT !.at = "ended"]

\* list.remove(x): the list without the first occurrence of x.
Remove(list, x) ==
    IF \E k \in 1..Len(list) : list[k] = x
    THEN LET first == CHOOSE k \in 1..Len(list) :
                          list[k] = x /\ \A j \in 1..(k - 1) : list[j] # x
         IN  SubSeq(list, 1, first - 1) \o SubSeq(list, first + 1, Len(list))
    ELSE list

Elements(list) == {list[k] : k \in 1..Len(list)}

\* ConnectionManager.connect after websocket.accept() has returned: the two
\* lists after the appends.
connect(websocket, project_id) ==
    [active_connections |-> Append(active_connections, websocket),
     project_connections |->
         IF project_id # None
         THEN [k \in DOMAIN project_connections \cup {project_id} |->
                  IF k = project_id
                  THEN Append(IF k \in DOMAIN project_connections
                              THEN project_connections[k] ELSE <<>>, websocket)
                  ELSE project_connections[k]]
         ELSE project_connections]

\* ConnectionManager.disconnect: the two lists after the removes.
disconnect(websocket, project_id) ==
    [active_connections |-> Remove(active_connections, websocket),
     project_connections |->
         IF project_id # None /\ project_id \in DOMAIN project_connections
         THEN [project_connections EXCEPT ![project_id] = Remove(@, websocket)]
         ELSE project_connections]

\* connection.send_text(message): the frame is sent, or the call raises.
send_text(connection, failing) ==
    IF connection \in failing THEN Raised(<<Fx("send", connection, "send_text", FALSE)>>)
    ELSE Returned(<<Fx("send", connection, "send_text", TRUE)>>)

\* try: body / except: pass
except_pass(body) == Returned(body.fx)

RECURSIVE broadcast_loop_uncaught(_, _, _)
\* The for loop of a broadcast, had the send not been inside a try.
broadcast_loop_uncaught(connections, i, failing) ==
    IF i > Len(connections) THEN Returned(<<>>)
    ELSE Then(send_text(connections[i], failing),
              broadcast_loop_uncaught(connections, i + 1, failing))

RECURSIVE broadcast_loop(_, _, _)
\* The for loop of broadcast_to_project and of broadcast from the i-th
\* connection on, while no other coroutine changes the list.
broadcast_loop(connections, i, failing) ==
    IF i > Len(connections) THEN Returned(<<>>)
    ELSE Then(except_pass(send_text(connections[i], failing)),
              broadcast_loop(connections, i + 1, failing))

broadcast_to_project(project_id, failing) ==
    IF project_id \in DOMAIN project_connections
    THEN broadcast_loop(project_connections[project_id], 1, failing)
    ELSE Returned(<<>>)

broadcast(failing) == broadcast_loop(active_connections, 1, failing)

\* The list iterator of "for connection in self.project_connections[...]"
\* after i items: the next item of the list as it is now, if there is one.
has_next(project_id, i) ==
    /\ project_id \in DOMAIN project_connections
    /\ i < Len(project_connections[project_id])

\* The coroutine after it took the next item and was suspended in its send,
\* or after the loop ended and it went back to receive_text.
advance(handler) ==
    IF has_next(handler.project_id, handler.i)
    THEN [handler EXCEPT !.at = "send", !.i = @ + 1,
                         !.target = project_connections[handler.project_id][handler.i + 1]]
    ELSE [handler EXCEPT !.at = "receive", !.target = None]

\* ---------------------------------------------------------------- actions
\* The slots of the requests in progress, and those of the runs of the
\* deadline job: the job runs in a thread of its scheduler, whatever
\* requests are being served.
Slots == 1..MaxRunning
Workers == (MaxRunning + 1)..(2 * MaxRunning)
Idle == [op |-> "idle"]

\* Which worker serves a request is of no consequence: a request that begins
\* takes the first slot that is free.
Free(slot) ==
    /\ running[slot] = Idle
    /\ \A other \in Slots : running[other] = Idle => slot <= other

\* Nor is it of consequence which scheduler's thread runs the job.
FreeWorker(worker) ==
    /\ running[worker] = Idle
    /\ \A other \in Workers : running[other] = Idle => worker <= other

\* Ids a request path may name: the rows there can be, and one past them.
ProjectIds == 1..(MaxProjects + 1)
TaskIds == 1..(MaxTasks + 1)

Init ==
    /\ projects = <<>>
    /\ project_members = <<>>
    /\ tasks = <<>>
    /\ comments = <<>>
    /\ notifications = <<>>
    /\ today = 1
    /\ last = [op |-> "start", code |-> 200]
    /\ active_connections = <<>>
    /\ project_connections = <<>>
    /\ handlers = [websocket \in Sockets |-> NotConnected]
    /\ running = [slot \in Slots \cup Workers |-> Idle]

\* The inserts that the requests under way have yet to make.
PendingMemberships ==
    Cardinality({slot \in Slots :
        \/ running[slot].op = "create_project"
        \/ running[slot].op = "add_project_member" /\ running[slot].at = "insert"})

RECURSIVE Reserved(_)
\* The tasks the runs of the deadline job in slots 1..n have yet to visit:
\* before its SELECT a run may yet select every task there can be.
Reserved(n) ==
    IF n = 0 THEN 0
    ELSE Reserved(n - 1) +
         (IF running[n].op # "check_upcoming_deadlines" THEN 0
          ELSE IF running[n].at \in {"three_days", "select"} THEN MaxTasks
          ELSE Len(running[n].tasks) - running[n].i + 1)

PendingNotifications ==
    Cardinality({slot \in Slots : running[slot].op = "add_project_member"})
        + Reserved(2 * MaxRunning)

\* The tables stay within the bounds of the model, the rows of the requests
\* under way counted in.
WithinBounds(r) ==
    /\ Len(r.projects) <= MaxProjects
    /\ Len(r.project_members) + PendingMemberships <= MaxMembers
    /\ Len(r.tasks) <= MaxTasks
    /\ Len(r.comments) <= MaxComments
    /\ Len(r.notifications) + PendingNotifications <= MaxNotifications

\* The request's writes are committed and its response recorded.
Commit(op, current_user, r) ==
    /\ WithinBounds(r)
    /\ projects' = r.projects
    /\ project_members' = r.project_members
    /\ tasks' = r.tasks
    /\ comments' = r.comments
    /\ notifications' = r.notifications
    /\ today' = today
    /\ UNCHANGED <<sockets, running>>
    /\ last' = [op |-> op, code |-> r.code]

\* What the Store and the Mailer do during one request, as far as an action
\* draws it: every notification insert succeeds or every one fails, the SMTP
\* session succeeds or fails, the reads are answered or fail.
StoreUp(ok) == IF ok THEN {} ELSE Users

EnvOf(ok, mail_ok, read_ok) ==
    [failing |-> StoreUp(ok), mail_ok |-> mail_ok, read_ok |-> read_ok]

\* DatabaseManager.create_project up to the end of its first execute_query:
\* the project row is inserted and committed, the request goes on to the
\* owner's membership.
BeginCreateProjectIn(slots) ==
    \E slot \in slots, current_user \in Users :
        /\ Free(slot)
        /\ Len(projects) < MaxProjects
        /\ Len(project_members) + PendingMemberships < MaxMembers
        /\ projects' = DbCreateProject(projects, current_user)
        /\ running' = [running EXCEPT ![slot] =
               [op |-> "create_project", owner_id |-> current_user,
                project_id |-> Len(projects) + 1]]
        /\ UNCHANGED <<project_members, tasks, comments, notifications, today, last, sockets>>

\* The second execute_query of DatabaseManager.create_project and the rest
\* of the handler: the owner's membership is inserted and committed, or the
\* query raises and the request answers 500 while the first commit stands;
\* then project and members are read back, and the request answers 200, or
\* 500 when a read raises.
AddOwnerMembershipWhen(oks, reads) ==
    \E slot \in Slots, ok \in oks, rd \in reads :
        /\ running[slot].op = "create_project"
        /\ LET stored == /\ ok
                         /\ ~membership_exists(project_members, running[slot].project_id,
                                               running[slot].owner_id)
               env == EnvOf(TRUE, TRUE, rd)
               read_back == Then(store_read("get_project_by_id", env),
                                 store_read("get_project_members", env))
           IN  /\ project_members' =
                      IF stored
                      THEN DbAddProjectMember(project_members, running[slot].project_id,
                                              running[slot].owner_id, "owner")
                      ELSE project_members
               /\ last' = [op |-> "create_project",
                           code |-> IF stored THEN CodeOf(read_back) ELSE 500]
        /\ running' = [running EXCEPT ![slot] = Idle]
        /\ UNCHANGED <<projects, tasks, comments, notifications, today, sockets>>

\* POST /projects/, one Store statement at a time, served by one of slots.
CreateProjectWhen(slots, oks, reads) ==
    \/ BeginCreateProjectIn(slots)
    \/ AddOwnerMembershipWhen(oks, reads)

\* Several server processes serve requests at once.
CreateProject == CreateProjectWhen(Slots, BOOLEAN, BOOLEAN)

\* The same request while the Store takes its second insert and answers its
\* reads.
CreateProjectStoreUp == CreateProjectWhen(Slots, {TRUE}, {TRUE})

\* The same again with one create-project request under way at a time.
CreateProjectSerial == CreateProjectWhen({1}, {TRUE}, {TRUE})

GetProject ==
    \E u \in Users, p \in ProjectIds : Commit("get_project", u, get_project(u, p))

GetProjectProgress ==
    \E u \in Users, p \in ProjectIds :
        Commit("get_project_progress", u, get_project_progress(u, p))

\* add_project_member up to its insert: a request that passes the three
\* checks of the handler goes on to the insert, any other is answered.
BeginAddProjectMemberIn(slots) ==
    \E slot \in slots, current_user \in Users, project_id \in ProjectIds,
       email \in Emails, role \in Roles :
        /\ Free(slot)
        /\ LET r == add_project_member(current_user, project_id, email, role,
                                       EnvOf(TRUE, TRUE, TRUE)) IN
           IF r.code = 200
           THEN /\ Len(project_members) + PendingMemberships < MaxMembers
                /\ Len(notifications) + PendingNotifications < MaxNotifications
                /\ running' = [running EXCEPT ![slot] =
                       [op |-> "add_project_member", at |-> "insert",
                        project_id |-> project_id,
                        user_id |-> get_user_by_email(email)[1].id, role |-> role]]
                /\ last' = last
           ELSE /\ running' = running
                /\ last' = [op |-> "add_project_member", code |-> r.code]
        /\ UNCHANGED <<tables, today, sockets>>

\* DatabaseManager.add_project_member: the membership is inserted and
\* committed, or the pair of project and user is in the table by now, the
\* insert raises and the request answers 500.
InsertMembership ==
    \E slot \in Slots :
        /\ running[slot].op = "add_project_member"
        /\ running[slot].at = "insert"
        /\ LET request == running[slot] IN
           IF membership_exists(project_members, request.project_id, request.user_id)
           THEN /\ project_members' = project_members
                /\ last' = [op |-> "add_project_member", code |-> 500]
                /\ running' = [running EXCEPT ![slot] = Idle]
           ELSE /\ project_members' =
                       DbAddProjectMember(project_members, request.project_id,
                                          request.user_id, request.role)
                /\ last' = last
                /\ running' = [running EXCEPT ![slot] = [request EXCEPT !.at = "notify"]]
        /\ UNCHANGED <<projects, tasks, comments, notifications, today, sockets>>

\* The new member's notification, inserted by DatabaseManager directly: the
\* request answers 200, or 500 when the insert raises, with the membership
\* stored.
NotifyAddedWhen(oks) ==
    \E slot \in Slots, ok \in oks :
        /\ running[slot].op = "add_project_member"
        /\ running[slot].at = "notify"
        /\ LET request == running[slot]
               row == db_create_notification(request.user_id, "Added to Project",
                                             EnvOf(ok, TRUE, TRUE))
           IN  /\ notifications' =
                      apply_inserts(notifications, row.fx, 1, request.project_id, None)
               /\ last' = [op |-> "add_project_member", code |-> CodeOf(row)]
        /\ running' = [running EXCEPT ![slot] = Idle]
        /\ UNCHANGED <<projects, project_members, tasks, comments, today, sockets>>

\* POST /projects/{project_id}/members, one Store statement at a time,
\* served by one of slots.
AddProjectMemberWhen(slots, oks) ==
    \/ BeginAddProjectMemberIn(slots)
    \/ InsertMembership
    \/ NotifyAddedWhen(oks)

\* Several server processes serve requests at once, the Store accepting the
\* notification insert.
AddProjectMemberStoreUp == AddProjectMemberWhen(Slots, {TRUE})

\* One add-member request under way at a time, the Store accepting the
\* notification insert or rejecting it.
AddProjectMemberSerial == AddProjectMemberWhen({1}, BOOLEAN)

\* The same while the Store accepts the insert.
AddProjectMemberSerialStoreUp == AddProjectMemberWhen({1}, {TRUE})

GetProjectTasks ==
    \E u \in Users, p \in ProjectIds :
        Commit("get_project_tasks", u, get_project_tasks(u, p))

\* create_task with its inputs drawn from the given sets.  A caller without
\* access to the project is answered 403 whatever else the request holds.
CreateTaskWhen(oks, mails, reads, dues) ==
    \E u \in Users, p \in ProjectIds :
        IF ~check_project_access(u, p)
        THEN Commit("create_task", u, create_task(u, p, None, None, EnvOf(TRUE, TRUE, TRUE)))
        ELSE \E a \in Users \cup {None}, d \in dues, ok \in oks, m \in mails, rd \in reads :
                 Commit("create_task", u, create_task(u, p, a, d, EnvOf(ok, m, rd)))

\* A task without due date, whether or not the Store accepts the notification
\* insert and the Mailer the email.
CreateTask == CreateTaskWhen(BOOLEAN, BOOLEAN, {TRUE}, {None})

\* The same request while the Store and the Mailer work.
CreateTaskStoreUp == CreateTaskWhen({TRUE}, {TRUE}, {TRUE}, {None})

\* A task without due date while the Store works, whether or not the Mailer
\* accepts the email.
CreateTaskMail == CreateTaskWhen({TRUE}, BOOLEAN, {TRUE}, {None})

\* A task with any due date, while the Store and the Mailer work.
CreateTaskDue == CreateTaskWhen({TRUE}, {TRUE}, {TRUE}, DueDates)

UpdateTaskStatusWhen(oks, mails, reads) ==
    \E u \in Users, t \in TaskIds, s \in RequestedStatus,
       ok \in oks, m \in mails, rd \in reads :
        Commit("update_task_status", u, update_task_status(u, t, s, EnvOf(ok, m, rd)))

\* A status update whether or not the Store answers the reads that follow
\* the update, while inserts and emails are accepted.
UpdateTaskStatus == UpdateTaskStatusWhen({TRUE}, {TRUE}, BOOLEAN)

\* The same request while the Store and the Mailer work.
UpdateTaskStatusStoreUp == UpdateTaskStatusWhen({TRUE}, {TRUE}, {TRUE})

\* A comment names rows that exist, or None.
GetComments ==
    \E u \in Users, p \in {None} \cup (1..Len(projects)), t \in {None} \cup (1..Len(tasks)) :
        Commit("get_comments", u, get_comments(u, p, t))

CreateComment ==
    \E u \in Users, p \in {None} \cup (1..Len(projects)), t \in {None} \cup (1..Len(tasks)) :
        Commit("create_comment", u, create_comment(u, p, t))

\* A mark-read request names any rows there are, and one past them.
MarkNotificationsRead ==
    \E u \in Users, ids \in SUBSET (1..(Len(notifications) + 1)) :
        Commit("mark_notifications_read", u, mark_notifications_read(u, ids))

\* The orders in which a set of task ids can be listed.
Orders(S) ==
    {order \in [1..Cardinality(S) -> S] :
        \A i, j \in 1..Cardinality(S) : order[i] = order[j] => i = j}

\* Every server process starts a scheduler of its own, which runs the job
\* in a worker thread: runs overlap each other and the requests, and share
\* nothing but the Store.  Every statement of a run is a transaction of its
\* own and reads the clock anew, so midnight and the requests may fall
\* between any two.  A run holds its locals: tomorrow and three_days until
\* the SELECT, their only reader, has been made, the rows the SELECT
\* returned, its place in the for loop, the days_until_due of the task at
\* hand, and the tasks it inserted a reminder for.
SweepRun(tomorrow) ==
    [op |-> "check_upcoming_deadlines", at |-> "three_days",
     tomorrow |-> tomorrow, three_days |-> None, tasks |-> <<>>, i |-> 1,
     days_until_due |-> None, inserted |-> <<>>]

\* The runs of the job in progress.
Instances == {worker \in Workers : running[worker].op = "check_upcoming_deadlines"}

\* The scheduler starts a run unless max_instances runs are in progress:
\* tomorrow = date.today() + timedelta(days=1).
BeginDeadlineSweepWhen(max_instances) ==
    \E worker \in Workers :
        /\ FreeWorker(worker)
        /\ Cardinality(Instances) < max_instances
        /\ Len(notifications) + PendingNotifications + MaxTasks <= MaxNotifications
        /\ running' = [running EXCEPT ![worker] = SweepRun(today + 1)]
        /\ UNCHANGED <<tables, today, last, sockets>>

\* three_days = date.today() + timedelta(days=3).
ThreeDaysOf(worker) ==
    /\ running[worker].op = "check_upcoming_deadlines"
    /\ running[worker].at = "three_days"
    /\ running' = [running EXCEPT ![worker] =
           [running[worker] EXCEPT !.at = "select", !.three_days = today + 3]]
    /\ UNCHANGED <<tables, today, last, sockets>>

ThreeDays == \E worker \in Workers : ThreeDaysOf(worker)

\* The SELECT of the tasks due between tomorrow and three_days, over the
\* tasks there are when it is made, in any order.  When it raises, the run
\* is over: the exception is caught and logged.
SelectUpcomingOf(worker) ==
    /\ running[worker].op = "check_upcoming_deadlines"
    /\ running[worker].at = "select"
    /\ LET run == running[worker] IN
       \E order \in Orders(select_upcoming(run.tomorrow, run.three_days)), rd \in BOOLEAN :
           LET selected == store_read("upcoming_tasks", EnvOf(TRUE, TRUE, rd)) IN
           IF selected.raised
           THEN /\ running' = [running EXCEPT ![worker] = Idle]
                /\ last' = [op |-> "check_upcoming_deadlines", code |-> 200]
           ELSE /\ running' = [running EXCEPT ![worker] =
                       [run EXCEPT !.at = "count", !.tomorrow = None, !.three_days = None,
                                   !.tasks = [k \in 1..Len(order) |-> tasks[order[k]]]]]
                /\ last' = last
    /\ UNCHANGED <<tables, today, sockets>>

SelectUpcoming == \E worker \in Workers : SelectUpcomingOf(worker)

\* The head of the for loop and the reminder count of the task at hand, over
\* the rows of the day the count is made on (CURDATE()).  The run is over
\* when the rows are exhausted or the count raises.
CountRemindersOf(worker) ==
    /\ running[worker].op = "check_upcoming_deadlines"
    /\ running[worker].at = "count"
    /\ LET run == running[worker] IN
       IF run.i > Len(run.tasks)
       THEN /\ running' = [running EXCEPT ![worker] = Idle]
            /\ last' = [op |-> "check_upcoming_deadlines", code |-> 200]
       ELSE \E rd \in BOOLEAN :
                LET task == run.tasks[run.i]
                    counted == store_read("reminder_count", EnvOf(TRUE, TRUE, rd))
                IN  IF counted.raised
                    THEN /\ running' = [running EXCEPT ![worker] = Idle]
                         /\ last' = [op |-> "check_upcoming_deadlines", code |-> 200]
                    ELSE /\ running' = [running EXCEPT ![worker] =
                                IF reminder_count(notifications, task.assignee_id, task.id) = 0
                                THEN [run EXCEPT !.at = "days_until_due"]
                                ELSE [run EXCEPT !.i = run.i + 1]]
                         /\ last' = last
    /\ UNCHANGED <<tables, today, sockets>>

CountReminders == \E worker \in Workers : CountRemindersOf(worker)

\* The first statement of "if reminder_count['count'] == 0":
\* days_until_due = (task['due_date'] - date.today()).days, with the day it
\* is computed on.
DaysUntilDueOf(worker) ==
    /\ running[worker].op = "check_upcoming_deadlines"
    /\ running[worker].at = "days_until_due"
    /\ LET run == running[worker] IN
       running' = [running EXCEPT ![worker] =
           [run EXCEPT !.at = "insert",
                       !.days_until_due = run.tasks[run.i].due_date - today]]
    /\ UNCHANGED <<tables, today, last, sockets>>

DaysUntilDue == \E worker \in Workers : DaysUntilDueOf(worker)

\* The insert, whose row is created on the day the insert is made
\* (CURRENT_TIMESTAMP) and which ends the run when it raises, and the email,
\* which does not raise.
InsertReminderOf(worker) ==
    /\ running[worker].op = "check_upcoming_deadlines"
    /\ running[worker].at = "insert"
    /\ \E ok \in BOOLEAN, m \in BOOLEAN :
           LET run == running[worker]
               task == run.tasks[run.i]
               env == EnvOf(ok, m, TRUE)
               row == db_create_notification(task.assignee_id, "Deadline Reminder", env)
               body == Then(row, send_email(task.assignee_id, "deadline_reminder", env))
           IN  IF body.raised
               THEN /\ notifications' = notifications
                    /\ running' = [running EXCEPT ![worker] = Idle]
                    /\ last' = [op |-> "check_upcoming_deadlines", code |-> 200]
               ELSE /\ notifications' =
                           DbCreateNotification(notifications, task.assignee_id,
                               "Deadline Reminder", run.days_until_due, None, task.id)
                    /\ running' = [running EXCEPT ![worker] =
                           [run EXCEPT !.i = run.i + 1, !.at = "count",
                                       !.days_until_due = None,
                                       !.inserted = Append(run.inserted, task.id)]]
                    /\ last' = last
    /\ UNCHANGED <<projects, project_members, tasks, comments, today, sockets>>

InsertReminder == \E worker \in Workers : InsertReminderOf(worker)

\* The hourly deadline job, one Store statement or clock reading at a time,
\* with at most max_instances runs in progress.
DeadlineSweepWhen(max_instances) ==
    \/ BeginDeadlineSweepWhen(max_instances)
    \/ ThreeDays
    \/ SelectUpcoming
    \/ CountReminders
    \/ DaysUntilDue
    \/ InsertReminder

\* The schedulers of several server processes: runs overlap.
DeadlineSweep == DeadlineSweepWhen(MaxRunning)

\* The scheduler of one server process: a run ends before the next begins.
DeadlineSweepSerial == DeadlineSweepWhen(1)

\* Midnight.
Tick ==
    /\ today <= MaxDay
    /\ today' = today + 1
    /\ UNCHANGED <<tables, last, sockets, running>>

\* A client opens a WebSocket on /project/{project_id} or on /notifications;
\* the handler runs manager.connect and waits in receive_text.
Connect ==
    \E websocket \in Sockets, endpoint \in {"project", "notifications"},
       project_id \in RoomIds :
        /\ handlers[websocket].at = "new"
        /\ endpoint = "notifications" => project_id = None
        /\ LET lists == connect(websocket, project_id) IN
           /\ active_connections' = lists.active_connections
           /\ project_connections' = lists.project_connections
        /\ handlers' = [handlers EXCEPT ![websocket] =
                            [@ EXCEPT !.at = "receive", !.endpoint = endpoint,
                                      !.project_id = project_id]]
        /\ UNCHANGED <<tables, today, last, running>>

\* receive_text returns a frame to a handler of the project endpoint.  A text
\* that is not JSON makes json.loads raise, which ends the handler; any other
\* text starts broadcast_to_project, whose first send suspends the handler.
ReceiveText ==
    \E websocket \in Sockets, well_formed \in BOOLEAN :
        /\ handlers[websocket].at = "receive"
        /\ handlers[websocket].endpoint = "project"
        /\ LET handler == handlers[websocket]
               room == IF handler.project_id \in DOMAIN project_connections
                       THEN Elements(project_connections[handler.project_id])
                       ELSE {}
           IN  handlers' = [handlers EXCEPT ![websocket] =
                   IF ~well_formed THEN Ended
                   ELSE advance([handler EXCEPT !.i = 0, !.sent = <<>>,
                                                !.room0 = room])]
        /\ UNCHANGED <<tables, today, last, active_connections, project_connections, running>>

\* The connections a send raises for: those whose handler has ended, which
\* closes the WebSocket.
Closed == {websocket \in Sockets : handlers[websocket].at = "ended"}

\* The send a broadcasting handler is suspended in returns or raises; the
\* handler goes on to the next connection of the list.
SendReturns ==
    \E websocket \in Sockets :
        /\ handlers[websocket].at = "send"
        /\ LET target == handlers[websocket].target
               sent == except_pass(send_text(target, Closed))
           IN  handlers' = [handlers EXCEPT ![websocket] =
                               advance([@ EXCEPT !.sent = @ \o sent.fx])]
        /\ UNCHANGED <<tables, today, last, active_connections, project_connections, running>>

\* receive_text raises WebSocketDisconnect: the handler runs
\* manager.disconnect and ends.
ClientDisconnect ==
    \E websocket \in Sockets :
        /\ handlers[websocket].at = "receive"
        /\ LET lists == disconnect(websocket,
                                   IF handlers[websocket].endpoint = "project"
                                   THEN handlers[websocket].project_id ELSE None)
           IN  /\ active_connections' = lists.active_connections
               /\ project_connections' = lists.project_connections
        /\ handlers' = [handlers EXCEPT ![websocket] = Ended]
        /\ UNCHANGED <<tables, today, last, running>>

\* Projects and their members.
Next ==
    \/ CreateProjectStoreUp
    \/ AddProjectMemberStoreUp
    \/ GetProject

Spec == Init /\ [][Next]_vars

\* The membership states that creating projects and adding members reach.
NextMembers ==
    \/ CreateProjectStoreUp
    \/ AddProjectMemberStoreUp

SpecMembers == Init /\ [][NextMembers]_vars

\* Projects, members and tasks, while the Store and the Mailer work.
NextTasks ==
    \/ CreateProjectSerial
    \/ AddProjectMemberSerialStoreUp
    \/ CreateTaskStoreUp
    \/ UpdateTaskStatusStoreUp

SpecTasks == Init /\ [][NextTasks]_vars

\* Projects and the assignment of their tasks, with the failures of the
\* Store and the Mailer while the assignee is notified.
NextAssign ==
    \/ CreateProjectStoreUp
    \/ CreateTask
    \/ GetProject
    \/ GetProjectTasks

SpecAssign == Init /\ [][NextAssign]_vars

\* The content of projects, read and written: progress, tasks and comments.
NextComments ==
    \/ CreateProjectStoreUp
    \/ CreateTaskStoreUp
    \/ GetProjectProgress
    \/ GetProjectTasks
    \/ GetComments
    \/ CreateComment

SpecComments == Init /\ [][NextComments]_vars

\* Tasks and their status, with the failures of the Store and the Mailer
\* while a status update is announced.
NextStatus ==
    \/ CreateProjectStoreUp
    \/ CreateTaskStoreUp
    \/ UpdateTaskStatus

SpecStatus == Init /\ [][NextStatus]_vars

\* Tasks with due dates, the deadline job in the schedulers of several
\* server processes, and the calendar.
NextSweep ==
    \/ CreateProjectStoreUp
    \/ CreateTaskDue
    \/ DeadlineSweep
    \/ Tick

SpecSweep == Init /\ [][NextSweep]_vars

\* The deadline job as the scheduler of one server process runs it, a run
\* ending before the next begins, and the calendar.
NextScheduler ==
    \/ CreateProjectStoreUp
    \/ CreateTaskDue
    \/ DeadlineSweepSerial
    \/ Tick

SpecScheduler == Init /\ [][NextScheduler]_vars

\* Notifications and their read marks, with the failures of the Store while
\* a new member is notified.
NextRead ==
    \/ CreateProjectSerial
    \/ AddProjectMemberSerial
    \/ MarkNotificationsRead

SpecRead == Init /\ [][NextRead]_vars

\* The assignment of tasks while the Mailer works or fails.
NextMail ==
    \/ CreateProjectStoreUp
    \/ CreateTaskMail
    \/ GetProject
    \/ GetProjectProgress
    \/ GetProjectTasks

SpecMail == Init /\ [][NextMail]_vars

\* The WebSocket endpoints and the ConnectionManager.
NextSockets ==
    \/ Connect
    \/ ReceiveText
    \/ SendReturns
    \/ ClientDisconnect

SpecSockets == Init /\ [][NextSockets]_vars

\* create_project and add_project_member statement by statement, in several
\* server processes, with the failures of the Store during create_project.
NextCreate ==
    \/ CreateProject
    \/ AddProjectMemberStoreUp

SpecCreate == Init /\ [][NextCreate]_vars

\* The same with runs that overlap taking their steps: a worker thread that
\* has a step to take takes it.
SpecOverlap ==
    /\ Init /\ [][NextSweep]_vars
    /\ \A worker \in Workers :
           WF_vars(\/ ThreeDaysOf(worker) \/ SelectUpcomingOf(worker)
                   \/ CountRemindersOf(worker) \/ DaysUntilDueOf(worker)
                   \/ InsertReminderOf(worker))

\* ================================================================= claims
\* What the claims speak of, read off the tables directly.
ProjectExists(p) == p \in 1..Len(projects)

RolesOf(u, p) ==
    {project_members[i].role : i \in {j \in 1..Len(project_members) :
        project_members[j].project_id = p /\ project_members[j].user_id = u}}

IsMember(u, p) == RolesOf(u, p) # {}

MembersOf(p) == {u \in Users : IsMember(u, p)}

IsOwner(u, p) == ProjectExists(p) /\ projects[p].owner_id = u

\* Rows of a notifications table addressed to u, and with a given title.
RowsTo(table, u) == Cardinality({i \in 1..Len(table) : table[i].user_id = u})

TitledRowsTo(table, u, title) ==
    Cardinality({i \in 1..Len(table) : table[i].user_id = u /\ table[i].title = title})

\* Rows the response r added for u to the notifications table.
NewRowsTo(r, u) == RowsTo(r.notifications, u) - RowsTo(notifications, u)

NewTitledRowsTo(r, u, title) ==
    TitledRowsTo(r.notifications, u, title) - TitledRowsTo(notifications, u, title)

\* Attempts of one kind ("insert" or "email") in a trace, and those for u.
Attempts(fx, kind) == {i \in 1..Len(fx) : fx[i].kind = kind}

AttemptsTo(fx, kind, u) == {i \in Attempts(fx, kind) : fx[i].user = u}

\* The response wrote no table.
WroteNothing(r) ==
    /\ r.projects = projects
    /\ r.project_members = project_members
    /\ r.tasks = tasks
    /\ r.comments = comments
    /\ r.notifications = notifications
    /\ r.fx = <<>>

\* The Store accepts every insert.
StoreAccepts(env) == env.failing = {}

\* The Store answers its reads.
AnsweringEnvs == {env \in Envs : env.read_ok}

\* The Store and the Mailer work.
EnvUp == [failing |-> {}, mail_ok |-> TRUE, read_ok |-> TRUE]

\* No user is the target of two notification inserts in the trace.
AtMostOneInsertEach(fx) ==
    \A x \in Users : Cardinality(AttemptsTo(fx, "insert", x)) <= 1

\* C1: a status update succeeds only for the task's recorded assignee; with a
\* valid status, any other caller (owner, admin, creator, member) gets 403 and
\* nothing is written, and so does every caller when the assignee is null.
C1_OnlyAssigneeUpdatesStatus ==
    \A u \in Users, t \in 1..Len(tasks), s \in RequestedStatus, env \in Envs :
        LET r == update_task_status(u, t, s, env) IN
        /\ r.code = 200 => tasks[t].assignee_id = u
        /\ (s \in TaskStatus /\ tasks[t].assignee_id # u) =>
               (r.code = 403 /\ WroteNothing(r))
        /\ tasks[t].assignee_id = None => r.code # 200

\* C2: check_project_access is true exactly for an existing project's owner
\* and the users holding a membership row of any role in it; it is false for
\* a project that does not exist; the owner always has access.
C2_AccessIffOwnerOrMember ==
    \A u \in Users, p \in ProjectIds :
        /\ check_project_access(u, p) <=>
               (ProjectExists(p) /\ (projects[p].owner_id = u \/ IsMember(u, p)))
        /\ IsOwner(u, p) => check_project_access(u, p)

\* C2 witness: a project read was answered while the project has a plain
\* member (access), a user without membership (no access), and another
\* project id names no project.
C2_Witness ==
    /\ last.op = "get_project" /\ last.code = 200
    /\ \E p \in ProjectIds, m \in Users, n \in Users :
        /\ ProjectExists(p) /\ ~ProjectExists(p + 1)
        /\ RolesOf(m, p) = {"member"} /\ check_project_access(m, p)
        /\ ~IsMember(n, p) /\ ~check_project_access(n, p)

\* C3: check_project_admin is true exactly for an existing project's owner
\* and the users holding a membership of role admin or owner in it; a user who
\* is not the owner and holds only the role member is not admin; it is false
\* for a project that does not exist.
C3_AdminIffOwnerOrAdminRole ==
    \A u \in Users, p \in ProjectIds :
        /\ check_project_admin(u, p) <=>
               (ProjectExists(p) /\
                (projects[p].owner_id = u \/ RolesOf(u, p) \cap {"admin", "owner"} # {}))
        /\ (~IsOwner(u, p) /\ RolesOf(u, p) = {"member"}) => ~check_project_admin(u, p)
        /\ ~ProjectExists(p) => ~check_project_admin(u, p)

\* C3 witness: an add-member request was refused while the project holds a
\* plain member (not admin) and a member of role admin (admin).
C3_Witness ==
    /\ last.op = "add_project_member" /\ last.code = 403
    /\ \E p \in ProjectIds, m \in Users, a \in Users :
        /\ RolesOf(m, p) = {"member"} /\ ~check_project_admin(m, p)
        /\ RolesOf(a, p) = {"admin"} /\ check_project_admin(a, p)

\* C4: a user without access to project p gets 403 from every read of p (its
\* details, progress, tasks, comments) and from creating a task or a comment
\* in p or on a task of p, and such a request writes nothing.
C4_EveryOperationGatedByAccess ==
    \A u \in Users, p \in ProjectIds :
        ~check_project_access(u, p) =>
            /\ get_project(u, p).code = 403
            /\ get_project_progress(u, p).code = 403
            /\ get_project_tasks(u, p).code = 403
            /\ \A a \in Users \cup {None}, env \in Envs :
                   LET r == create_task(u, p, a, None, env) IN
                   r.code = 403 /\ WroteNothing(r)
            /\ ProjectExists(p) =>
                   /\ get_comments(u, p, None).code = 403
                   /\ LET r == create_comment(u, p, None) IN
                      r.code = 403 /\ WroteNothing(r)
            /\ \A t \in 1..Len(tasks) :
                   tasks[t].project_id = p =>
                       /\ get_comments(u, None, t).code = 403
                       /\ LET r == create_comment(u, None, t) IN
                          r.code = 403 /\ WroteNothing(r)

\* C5: an add-member request by a user who is not admin of the project is
\* answered 403 and leaves memberships and notifications as they were; only an
\* admin's request inserts a membership row.
C5_AddMemberNeedsAdmin ==
    \A u \in Users, p \in ProjectIds, e \in Emails, role \in Roles, ok \in BOOLEAN :
        LET r == add_project_member(u, p, e, role,
                                    EnvOf(ok, TRUE, TRUE)) IN
        /\ ~check_project_admin(u, p) =>
               (r.code = 403 /\ r.project_members = project_members
                             /\ r.notifications = notifications)
        /\ r.project_members # project_members => check_project_admin(u, p)

\* C5 witness: an add-member request was refused with 403 in a project that
\* has a plain member, who may read the project but not add members.
C5_Witness ==
    /\ last.op = "add_project_member" /\ last.code = 403
    /\ \E p \in ProjectIds, m \in Users :
        /\ RolesOf(m, p) = {"member"}
        /\ check_project_access(m, p)
        /\ add_project_member(m, p, UnknownEmail, "member",
                              EnvUp).code = 403

\* C9: a create-task request that stores a task with an assignee attempts
\* exactly one notification insert, for the assignee, and exactly one email,
\* to the assignee, whether or not the insert succeeded; the rows added are
\* that one row when the insert succeeded and none otherwise; without
\* assignee nothing is attempted.
C9_AssignmentNotifiesAssigneeOnly ==
    \A u \in Users, p \in ProjectIds, a \in Users \cup {None}, env \in AnsweringEnvs :
        LET r == create_task(u, p, a, None, env) IN
        Len(r.tasks) = Len(tasks) + 1 =>
            IF a = None
            THEN /\ Attempts(r.fx, "insert") = {} /\ Attempts(r.fx, "email") = {}
                 /\ r.notifications = notifications
            ELSE /\ Cardinality(Attempts(r.fx, "insert")) = 1
                 /\ Cardinality(AttemptsTo(r.fx, "insert", a)) = 1
                 /\ Cardinality(Attempts(r.fx, "email")) = 1
                 /\ Cardinality(AttemptsTo(r.fx, "email", a)) = 1
                 /\ \A x \in Users :
                        NewRowsTo(r, x) = IF x = a /\ a \notin env.failing THEN 1 ELSE 0

\* The notification rows a trace stored for u.
StoredTo(fx, u) == {i \in AttemptsTo(fx, "insert", u) : fx[i].ok}

\* C6: the status-changed fanout for a task by updater u, whatever the new
\* status, stores exactly one notification row for each member of the task's
\* project other than u, and none for u or for a user who is no member.
C6_StatusFanoutRowPerOtherMember ==
    \A u \in Users, t \in 1..Len(tasks), s \in TaskStatus :
        LET p == tasks[t].project_id
            fanout == send_task_status_notifications(
                          <<tasks[t]>>, get_user_by_id(u), get_project_by_id(p), s, EnvUp)
        IN  \A x \in Users :
                Cardinality(StoredTo(fanout.fx, x)) =
                    IF IsMember(x, p) /\ x # u THEN 1 ELSE 0

\* C7: the status-changed fanout attempts exactly one email, to the project
\* owner, when the new status is done and the owner is a notified member (not
\* the updater); otherwise it attempts no email.
C7_StatusFanoutEmailsOwnerOnDone ==
    \A u \in Users, t \in 1..Len(tasks), s \in TaskStatus, env \in Envs :
        LET p == tasks[t].project_id
            owner == projects[p].owner_id
            fanout == send_task_status_notifications(
                          <<tasks[t]>>, get_user_by_id(u), get_project_by_id(p), s, env)
        IN  IF s = "done" /\ owner # u /\ IsMember(owner, p)
            THEN /\ Cardinality(Attempts(fanout.fx, "email")) = 1
                 /\ Cardinality(AttemptsTo(fanout.fx, "email", owner)) = 1
            ELSE Attempts(fanout.fx, "email") = {}

\* C8: a successful add-member request by X for new member Z adds exactly one
\* row for Z, exactly one row of another title for every other member, no row
\* for X or for anybody else, and attempts no email.
C8_MemberAddedFanout ==
    \A x \in Users, p \in ProjectIds, z \in Users, role \in Roles, env \in Envs :
        LET r == add_project_member(x, p, z, role, env) IN
        (r.code = 200 /\ StoreAccepts(env)) =>
            /\ NewRowsTo(r, z) = 1
            /\ NewTitledRowsTo(r, z, "Added to Project") = 1
            /\ \A y \in Users \ {x, z} :
                   IF IsMember(y, p)
                   THEN /\ NewRowsTo(r, y) = 1
                        /\ NewTitledRowsTo(r, y, "Added to Project") = 0
                   ELSE NewRowsTo(r, y) = 0
            /\ x # z => NewRowsTo(r, x) = 0
            /\ Attempts(r.fx, "email") = {}

\* The project a comment on project p or on task t belongs to.
CommentProject(p, t) == IF p # None THEN p ELSE tasks[t].project_id

\* C10: a comment posted on a project, or on a task of a project, adds
\* exactly one notification row for every member of that project except the
\* author, none for the author, and attempts no email.
C10_CommentFanout ==
    \A u \in Users, p \in {None} \cup (1..Len(projects)), t \in {None} \cup (1..Len(tasks)) :
        LET r == create_comment(u, p, t) IN
        (r.code = 200 /\ ((p = None) # (t = None))) =>
            /\ \A x \in Users :
                   NewRowsTo(r, x) =
                       IF IsMember(x, CommentProject(p, t)) /\ x # u THEN 1 ELSE 0
            /\ Attempts(r.fx, "email") = {}

\* What a router hands to a fanout method: as project_data or a user's row
\* the row of the table, or None when the id names no row; as task_data None,
\* a row of the table, or the row of a task just created in a project.
ProjectData == {get_project_by_id(p) : p \in ProjectIds}
UserData == {get_user_by_id(u) : u \in Users \cup {None}}
TaskData ==
    {<<>>} \cup {<<tasks[t]>> : t \in 1..Len(tasks)}
        \cup {<<DbCreateTask(tasks, p, None, None, projects[p].owner_id)[Len(tasks) + 1]>> :
                 p \in 1..Len(projects)}

\* C11: in every membership state reached by creating projects and adding
\* members, one call of a fanout method (task assigned, status changed, member
\* added, comment posted) and one add-member request attempt at most one
\* notification insert per user, so no user gets two rows.
C11_AtMostOneRowPerRecipient ==
    \A project_data \in ProjectData, u \in Users :
        /\ \A task_data \in TaskData, a \in Users :
               AtMostOneInsertEach(send_task_assignment_notifications(
                   task_data, get_user_by_id(a), get_user_by_id(u), project_data, EnvUp).fx)
        /\ \A task_data \in TaskData, s \in TaskStatus :
               AtMostOneInsertEach(send_task_status_notifications(
                   task_data, get_user_by_id(u), project_data, s, EnvUp).fx)
        /\ \A v \in Users :
               AtMostOneInsertEach(send_project_member_added_notifications(
                   project_data, get_user_by_id(v), get_user_by_id(u), EnvUp).fx)
        /\ \A p \in ProjectIds, v \in Users, role \in Roles :
               LET r == add_project_member(u, p, v, role, EnvUp) IN
               AtMostOneInsertEach(r.fx) /\ \A x \in Users : NewRowsTo(r, x) <= 1
        /\ \A task_data \in TaskData :
               AtMostOneInsertEach(send_comment_notifications(
                   get_user_by_id(u), project_data, task_data, EnvUp).fx)

\* C11 witness: a member was added to a project that now has three members,
\* and the member-added fanout for one of them, called by another, attempts
\* exactly one insert, for the new member.
C11_Witness ==
    /\ last.op = "add_project_member" /\ last.code = 200
    /\ \E p \in ProjectIds, x \in Users, z \in Users :
        /\ MembersOf(p) = Users /\ x # z
        /\ LET fx == send_project_member_added_notifications(
                         get_project_by_id(p), get_user_by_id(z), get_user_by_id(x), EnvUp).fx
           IN  /\ Cardinality(Attempts(fx, "insert")) = 1
               /\ Cardinality(AttemptsTo(fx, "insert", z)) = 1

\* C12: each of the four fanout methods returns to its caller without an
\* exception, whatever rows (or None) it is handed and whether the reads and
\* inserts it asks of the Store and the sends it asks of the Mailer succeed
\* or fail.
C12_FanoutNeverRaises ==
    \A project_data \in ProjectData, user \in UserData, ok \in BOOLEAN :
        /\ \A task_data \in TaskData, assignee \in UserData, m \in BOOLEAN :
               ~send_task_assignment_notifications(
                    task_data, assignee, user, project_data, EnvOf(ok, m, TRUE)).raised
        /\ \A task_data \in TaskData, s \in TaskStatus, m \in BOOLEAN, rd \in BOOLEAN :
               ~send_task_status_notifications(
                    task_data, user, project_data, s, EnvOf(ok, m, rd)).raised
        /\ \A new_member \in UserData, rd \in BOOLEAN :
               ~send_project_member_added_notifications(
                    project_data, new_member, user, EnvOf(ok, TRUE, rd)).raised
        /\ \A task_data \in TaskData, rd \in BOOLEAN :
               ~send_comment_notifications(
                    user, project_data, task_data, EnvOf(ok, TRUE, rd)).raised

\* C12 witness: a member was added to a project; with the Store failing its
\* reads the status fanout for a task of that project stops at the member
\* query, and with the Store refusing inserts and the Mailer failing the
\* assignment fanout still goes on to the email; both return.
C12_Witness ==
    /\ last.op = "add_project_member" /\ last.code = 200
    /\ \E p \in 1..Len(projects), u \in Users, task_data \in TaskData :
        LET project_data == get_project_by_id(p)
            status == send_task_status_notifications(
                          task_data, get_user_by_id(u), project_data, "done",
                          EnvOf(TRUE, TRUE, FALSE))
            assigned == send_task_assignment_notifications(
                            task_data, get_user_by_id(u), get_user_by_id(u),
                            project_data, EnvOf(FALSE, FALSE, TRUE))
        IN  /\ task_data # <<>> /\ task_data[1].project_id = p
            /\ Len(get_project_members(p)) > 1
            /\ Len(status.fx) = 1 /\ ~status.fx[1].ok /\ ~status.raised
            /\ Len(assigned.fx) = 2 /\ ~assigned.fx[1].ok /\ ~assigned.fx[2].ok
            /\ ~assigned.raised

\* The request committed a write of its own.
Wrote(r) == Attempts(r.fx, "write") # {}

\* C13: a create-task, update-task-status or add-project-member request that
\* has committed its write answers 200, whatever fails afterwards while
\* notification data is read, notification rows are inserted or email is sent.
C13_CommittedMutationReportsSuccess ==
    \A u \in Users, ok \in BOOLEAN, m \in BOOLEAN, rd \in BOOLEAN :
        LET env == EnvOf(ok, m, rd) IN
        /\ \A p \in ProjectIds, a \in Users \cup {None} :
               LET r == create_task(u, p, a, None, env) IN
               Wrote(r) => r.code = 200
        /\ \A t \in TaskIds, s \in RequestedStatus :
               LET r == update_task_status(u, t, s, env) IN
               Wrote(r) => r.code = 200
        /\ \A p \in ProjectIds, e \in Emails, role \in Roles :
               LET r == add_project_member(u, p, e, role, env) IN
               Wrote(r) => r.code = 200

\* C15: for a task with assignee A, a status update by A to any of todo,
\* in_progress, done, the current status included, is answered 200 and leaves
\* that status stored, while the Store answers; the status of every task is
\* one of the three in every state.
C15_StatusTransitionTotal ==
    /\ \A t \in 1..Len(tasks) : tasks[t].status \in TaskStatus
    /\ \A t \in 1..Len(tasks), s \in TaskStatus, env \in AnsweringEnvs :
           tasks[t].assignee_id # None =>
               LET r == update_task_status(tasks[t].assignee_id, t, s, env) IN
               /\ r.code = 200
               /\ r.tasks[t].status = s
               /\ \A o \in 1..Len(tasks) : o # t => r.tasks[o] = tasks[o]

\* The rows a run of the deadline job added to the table it began with.
AddedRows(before, after) ==
    {after[i] : i \in (Len(before) + 1)..Len(after)}

\* The reminders of today for a user and a task in a notifications table.
RemindersToday(table, user_id, task_id) ==
    {i \in 1..Len(table) :
        /\ table[i].title = "Deadline Reminder" /\ table[i].created_at = today
        /\ table[i].user_id = user_id /\ table[i].task_id = task_id}

\* A task the deadline job owes a reminder today: assigned, not done, due
\* tomorrow, the day after or the day after that, and not yet reminded today.
OwedReminder(t) ==
    /\ tasks[t].assignee_id \in Users
    /\ tasks[t].status \in {"todo", "in_progress"}
    /\ tasks[t].due_date \in {today + 1, today + 2, today + 3}
    /\ RemindersToday(notifications, tasks[t].assignee_id, tasks[t].id) = {}

\* C16: every "Deadline Reminder" row is addressed to the assignee of its
\* task and carries due_date less the day the row was created, which is 1, 2
\* or 3, so that no task due on the day of the row, overdue or due four or
\* more days later has one; and a run of the deadline job within one day,
\* while the Store accepts and answers, adds exactly one such row for every
\* task that is assigned, not done, due in one to three days and not yet
\* reminded today, and no other row.
C16_ReminderExactlyForDueTasks ==
    /\ \A i \in 1..Len(notifications) :
           notifications[i].title = "Deadline Reminder" =>
               /\ notifications[i].task_id \in 1..Len(tasks)
               /\ notifications[i].user_id = tasks[notifications[i].task_id].assignee_id
               /\ notifications[i].body
                      = tasks[notifications[i].task_id].due_date - notifications[i].created_at
               /\ notifications[i].body \in {1, 2, 3}
    /\ \A order \in Orders(upcoming_tasks), m \in BOOLEAN :
           LET r == check_upcoming_deadlines(order, EnvOf(TRUE, m, TRUE))
               added == AddedRows(notifications, r.notifications)
           IN  /\ SubSeq(r.notifications, 1, Len(notifications)) = notifications
               /\ Len(r.notifications) = Len(notifications) + Cardinality(added)
               /\ \A row \in added : row.title = "Deadline Reminder"
               /\ \A t \in 1..Len(tasks) :
                      Cardinality({row \in added : row.task_id = tasks[t].id})
                          = IF OwedReminder(t) THEN 1 ELSE 0

\* C17: the table never holds two reminders of one day for one user and
\* task, and of two runs of the deadline job on one day over the same tasks
\* the second adds no row for a pair the first run has reminded, whatever
\* the Store and the Mailer do in either.
C17_SweepIdempotentPerDay ==
    /\ \A i, j \in 1..Len(notifications) :
           (/\ notifications[i].title = "Deadline Reminder"
            /\ notifications[j].title = "Deadline Reminder"
            /\ notifications[i].user_id = notifications[j].user_id
            /\ notifications[i].task_id = notifications[j].task_id
            /\ notifications[i].created_at = notifications[j].created_at) => i = j
    /\ \A o1 \in Orders(upcoming_tasks), o2 \in Orders(upcoming_tasks),
          ok1 \in BOOLEAN, rd1 \in BOOLEAN, ok2 \in BOOLEAN, rd2 \in BOOLEAN,
          m \in BOOLEAN :
           LET first == deadline_loop(o1, 1, notifications, EnvOf(ok1, m, rd1)).table
               second == deadline_loop(o2, 1, first, EnvOf(ok2, m, rd2)).table
           IN  \A t \in 1..Len(tasks), u \in Users :
                   /\ Cardinality(RemindersToday(second, u, tasks[t].id)) <= 1
                   /\ RemindersToday(first, u, tasks[t].id) # {} =>
                          RemindersToday(second, u, tasks[t].id)
                              = RemindersToday(first, u, tasks[t].id)

\* C17 witness: the deadline job has run on a day for which the table holds
\* a reminder for a task still due for one, and another run adds nothing.
C17_Witness ==
    /\ last.op = "check_upcoming_deadlines"
    /\ \E t \in upcoming_tasks :
           /\ RemindersToday(notifications, tasks[t].assignee_id, tasks[t].id) # {}
           /\ \A order \in Orders(upcoming_tasks) :
                  check_upcoming_deadlines(order, EnvUp).notifications = notifications

\* C18: a mark-read request by user u leaves every notification of another
\* user as it was, whatever ids it lists, and changes nothing but is_read on
\* the rows of u.
C18_MarkReadOnlyOwnRows ==
    \A u \in Users, ids \in SUBSET (1..(Len(notifications) + 1)) :
        LET r == mark_notifications_read(u, ids) IN
        /\ Len(r.notifications) = Len(notifications)
        /\ \A i \in 1..Len(notifications) :
               /\ notifications[i].user_id # u => r.notifications[i] = notifications[i]
               /\ [r.notifications[i] EXCEPT !.is_read = FALSE]
                      = [notifications[i] EXCEPT !.is_read = FALSE]

\* C18 witness: a mark-read request that listed ids has been answered, and
\* the table holds a row of one user, still unread, that a request of another
\* user listing it leaves as it is.
C18_Witness ==
    /\ last.op = "mark_notifications_read" /\ last.code = 500
    /\ \E i \in 1..Len(notifications), u \in Users :
        /\ notifications[i].user_id # u /\ ~notifications[i].is_read
        /\ mark_notifications_read(u, {i}).notifications[i] = notifications[i]

\* The membership rows of a project that carry the role owner.
OwnerRows(project_id) ==
    {i \in 1..Len(project_members) :
        /\ project_members[i].project_id = project_id
        /\ project_members[i].role = "owner"}

\* C19: once the request that created it has ended, every project has
\* exactly one membership row with the role owner, and the user of that row
\* is the project's owner_id.
C19_ExactlyOneOwnerMembership ==
    \A p \in 1..Len(projects) :
        (\A slot \in Slots : running[slot].op = "create_project"
                                 => running[slot].project_id # projects[p].id) =>
        /\ Cardinality(OwnerRows(projects[p].id)) = 1
        /\ \A i \in OwnerRows(projects[p].id) :
               project_members[i].user_id = projects[p].owner_id

\* C20: every stored comment has exactly one of project_id and task_id set,
\* and a create-comment request that gives both or neither is refused and
\* stores no comment.
C20_CommentHasOneAttachmentPoint ==
    /\ \A i \in 1..Len(comments) :
           (comments[i].project_id # None) # (comments[i].task_id # None)
    /\ \A u \in Users, p \in {None} \cup (1..Len(projects)),
          t \in {None} \cup (1..Len(tasks)) :
           (p # None) = (t # None) =>
               LET r == create_comment(u, p, t) IN
               r.code # 200 /\ r.comments = comments

\* C29: a status update that is refused writes nothing: a status other than
\* todo, in_progress, done is answered 400 whether or not the task exists, a
\* task that does not exist 404, a caller who is not the assignee 403, and in
\* each case the tables are as they were, no notification insert and no email
\* is attempted.
C29_RejectedStatusUpdateWritesNothing ==
    \A u \in Users, t \in TaskIds, s \in RequestedStatus,
       ok \in BOOLEAN, m \in BOOLEAN, rd \in BOOLEAN :
        LET r == update_task_status(u, t, s, EnvOf(ok, m, rd)) IN
        /\ s \notin TaskStatus => r.code = 400
        /\ (s \in TaskStatus /\ t \notin 1..Len(tasks)) => r.code = 404
        /\ (s \in TaskStatus /\ t \in 1..Len(tasks) /\ tasks[t].assignee_id # u)
               => r.code = 403
        /\ r.code \in {400, 403, 404} =>
               /\ WroteNothing(r)
               /\ Attempts(r.fx, "insert") = {} /\ Attempts(r.fx, "email") = {}

\* The selected tasks of an assignee that have no reminder of today yet.
OwedTo(a) == {t \in upcoming_tasks : OwedReminder(t) /\ tasks[t].assignee_id = a}

\* C26: for every selected task not yet reminded today a run of the deadline
\* job attempts the reminder insert and, whether or not the insert succeeded,
\* an email to the assignee after it; a failed insert or email for one task
\* does not keep the run from the other selected tasks, and the run ends
\* without an exception.
C26_SweepAttemptsInsertAndEmailPerTask ==
    \A order \in Orders(upcoming_tasks), ok \in BOOLEAN, m \in BOOLEAN :
        LET r == check_upcoming_deadlines(order, EnvOf(ok, m, TRUE)) IN
        /\ r.code = 200
        /\ \A a \in Users :
               /\ Cardinality(AttemptsTo(r.fx, "insert", a)) = Cardinality(OwedTo(a))
               /\ Cardinality(AttemptsTo(r.fx, "email", a)) = Cardinality(OwedTo(a))
               /\ \A e \in AttemptsTo(r.fx, "email", a) :
                      \E i \in AttemptsTo(r.fx, "insert", a) : i < e

\* The Store rejects the notification inserts of the users in F and nothing
\* else fails.
EnvFailing(F) == [failing |-> F, mail_ok |-> TRUE, read_ok |-> TRUE]

\* In the trace every user of the set has exactly one insert attempt and no
\* other user has any.
OneInsertAttemptEach(fx, recipients) ==
    \A x \in Users :
        Cardinality(AttemptsTo(fx, "insert", x)) = IF x \in recipients THEN 1 ELSE 0

\* C22: in one call of a fanout method over the members of a project, every
\* eligible recipient has exactly one insert attempt, whichever of the
\* recipients' inserts the Store rejects: a rejected insert is not repeated
\* and does not keep the later recipients from their attempt.
C22_OneInsertAttemptPerRecipient ==
    \A p \in 1..Len(projects), u \in Users, F \in SUBSET Users :
        LET project_data == get_project_by_id(p) IN
        /\ \A task_data \in TaskData \ {<<>>}, s \in TaskStatus :
               OneInsertAttemptEach(
                   send_task_status_notifications(
                       task_data, get_user_by_id(u), project_data, s, EnvFailing(F)).fx,
                   MembersOf(p) \ {u})
        /\ \A task_data \in TaskData \ {<<>>} :
               OneInsertAttemptEach(
                   send_comment_notifications(
                       get_user_by_id(u), project_data, task_data, EnvFailing(F)).fx,
                   MembersOf(p) \ {u})
        /\ \A v \in Users \ (MembersOf(p) \cup {u}) :
               OneInsertAttemptEach(
                   send_project_member_added_notifications(
                       project_data, get_user_by_id(v), get_user_by_id(u), EnvFailing(F)).fx,
                   (MembersOf(p) \cup {v}) \ {u})

\* The lists of member rows get_project_members can return for a project:
\* any members, in any order.
MemberLists ==
    UNION {{[i \in 1..n |-> [id |-> order[i], name |-> order[i], email |-> order[i],
                             role |-> "member", joined_at |-> i]] :
               order \in {o \in [1..n -> Users] :
                              \A i, j \in 1..n : o[i] = o[j] => i = j}} :
           n \in 0..Cardinality(Users)}

\* Every email attempt of the trace comes after every insert attempt.
EmailsAfterInserts(fx) ==
    \A e \in Attempts(fx, "email"), i \in Attempts(fx, "insert") : i < e

\* The Store rejects the inserts of the users in F, the Mailer works or not.
EnvMail(F, mail_ok) == [failing |-> F, mail_ok |-> mail_ok, read_ok |-> TRUE]

\* C23: in a call of the task-assigned or of the status-changed fanout every
\* email attempt comes after every insert attempt of the call, for every list
\* of members the Store may return and whichever inserts it rejects; an email
\* is attempted only after the insert attempt for its recipient; and the
\* rows written are the same whether the email succeeds or fails.
C23_EmailAfterAllInserts ==
    \A project_data \in ProjectData \ {<<>>}, task_data \in TaskData \ {<<>>},
       u \in Users, F \in SUBSET Users :
        /\ \A a \in Users :
               LET sent == send_task_assignment_notifications(
                               task_data, get_user_by_id(a), get_user_by_id(u),
                               project_data, EnvMail(F, TRUE)).fx
                   failed == send_task_assignment_notifications(
                               task_data, get_user_by_id(a), get_user_by_id(u),
                               project_data, EnvMail(F, FALSE)).fx
               IN  /\ EmailsAfterInserts(sent) /\ EmailsAfterInserts(failed)
                   /\ \A e \in Attempts(sent, "email") :
                          \E i \in AttemptsTo(sent, "insert", a) : i < e
                   /\ apply_inserts(notifications, sent, 1, project_data[1].id, task_data[1].id)
                          = apply_inserts(notifications, failed, 1, project_data[1].id,
                                          task_data[1].id)
        /\ \A members \in MemberLists, s \in TaskStatus :
               F \in {{}, Users} =>
               LET sent == status_loop(members, 1, task_data, get_user_by_id(u),
                                       project_data, s, EnvMail(F, TRUE)).fx
                   failed == status_loop(members, 1, task_data, get_user_by_id(u),
                                         project_data, s, EnvMail(F, FALSE)).fx
               IN  /\ EmailsAfterInserts(sent) /\ EmailsAfterInserts(failed)
                   /\ apply_inserts(notifications, sent, 1, project_data[1].id, task_data[1].id)
                          = apply_inserts(notifications, failed, 1, project_data[1].id,
                                          task_data[1].id)

\* C23 witness: a task with an assignee is stored, and the task-assigned
\* fanout called for it with the Mailer failing attempts the insert first,
\* which is stored, and the email second, which fails.
C23_Witness ==
    /\ last.op = "create_task"
    /\ \E t \in 1..Len(tasks) :
           /\ tasks[t].assignee_id # None
           /\ LET fx == send_task_assignment_notifications(
                             <<tasks[t]>>, get_user_by_id(tasks[t].assignee_id),
                             get_user_by_id(tasks[t].created_by),
                             get_project_by_id(tasks[t].project_id), EnvMail({}, FALSE)).fx
              IN  /\ Len(fx) = 2
                  /\ fx[1].kind = "insert" /\ fx[1].ok
                  /\ fx[2].kind = "email" /\ ~fx[2].ok
                  /\ Len(apply_inserts(notifications, fx, 1, tasks[t].project_id, t))
                         = Len(notifications) + 1

\* The send attempts of a trace that went to a connection.
SendsTo(fx, connection) ==
    {k \in 1..Len(fx) : fx[k].kind = "send" /\ fx[k].user = connection}

\* A broadcast over the list reaches every connection of it once, the failing
\* ones included, and returns.
ReachesAll(outcome, connections, failing) ==
    /\ ~outcome.raised
    /\ Len(outcome.fx) = Len(connections)
    /\ \A k \in 1..Len(connections) :
           /\ outcome.fx[k].kind = "send" /\ outcome.fx[k].user = connections[k]
           /\ outcome.fx[k].ok = (connections[k] \notin failing)

\* C21, on the lists of a state: broadcast_to_project and broadcast, run
\* without another coroutine in between, attempt the send to every connection
\* of the list, whichever sends fail, and do not raise.
C21_EveryConnectionIsSentTo ==
    \A failing \in SUBSET Sockets :
        /\ ReachesAll(broadcast(failing), active_connections, failing)
        /\ \A project_id \in RoomIds :
               ReachesAll(broadcast_to_project(project_id, failing),
                          IF project_id \in DOMAIN project_connections
                          THEN project_connections[project_id] ELSE <<>>,
                          failing)

\* C21: a broadcast sends to every subscriber whichever sends fail and does
\* not raise, and a step of a broadcast, its send failing or not, leaves
\* active_connections and every project's list as they were.
C21_BroadcastSurvivesSendFailure ==
    /\ []C21_EveryConnectionIsSentTo
    /\ [][(\E websocket \in Sockets :
               handlers[websocket].at = "send" /\ handlers'[websocket] # handlers[websocket])
           => UNCHANGED <<active_connections, project_connections>>]_vars

\* C21 witness: a handler has finished a broadcast to a room of two whose
\* first send failed and whose second send went out, and both are still
\* subscribed.
C21_Witness ==
    \E websocket \in Sockets :
        LET handler == handlers[websocket] IN
        /\ handler.at = "receive" /\ Len(handler.sent) = 2
        /\ ~handler.sent[1].ok /\ handler.sent[2].ok
        /\ handler.sent[1].user # handler.sent[2].user
        /\ Elements(project_connections[handler.project_id])
               = {handler.sent[1].user, handler.sent[2].user}

\* The connections now in a project's list.
Subscribers(project_id) ==
    IF project_id \in DOMAIN project_connections
    THEN Elements(project_connections[project_id]) ELSE {}

\* C27: a broadcast_to_project sends the message exactly once to every socket
\* that is in the project's list from the start of the broadcast to its end,
\* whatever connects and disconnects happen while the broadcast is suspended
\* in a send, and to no socket twice.  A socket leaves a list once and never
\* comes back, so the sockets that were in the list when the broadcast began
\* and are in it now have been in it throughout.
C27_BroadcastReachesEverySubscriberOnce ==
    \A websocket \in Sockets :
        LET handler == handlers[websocket] IN
        /\ \A x \in Sockets : Cardinality(SendsTo(handler.sent, x)) <= 1
        /\ (handler.at = "receive" /\ handler.endpoint = "project") =>
               \A x \in handler.room0 \cap Subscribers(handler.project_id) :
                   Cardinality(SendsTo(handler.sent, x)) = 1

\* C30: every socket of a project's list is in active_connections, and the
\* socket of a handler that has ended, by the client's disconnect or by an
\* exception while a received text was handled, is in neither.
C30_EndedSocketIsInNoList ==
    /\ \A project_id \in DOMAIN project_connections :
           Elements(project_connections[project_id]) \subseteq Elements(active_connections)
    /\ \A websocket \in Sockets :
           handlers[websocket].at = "ended" =>
               /\ websocket \notin Elements(active_connections)
               /\ \A project_id \in DOMAIN project_connections :
                      websocket \notin Elements(project_connections[project_id])

\* C24: every project row has its owner's membership row, in every state,
\* those between the two statements of create_project and those after a
\* failed membership insert included.
C24_ProjectHasOwnerMembership ==
    \A p \in 1..Len(projects) :
        \E i \in 1..Len(project_members) :
            /\ project_members[i].project_id = projects[p].id
            /\ project_members[i].user_id = projects[p].owner_id
            /\ project_members[i].role = "owner"

\* The membership rows of a user in a project.
MembershipRows(p, u) ==
    {i \in 1..Len(project_members) :
        project_members[i].project_id = p /\ project_members[i].user_id = u}

\* C28: a project has at most one membership row per user in every state,
\* whichever add-member requests ran between the check and the insert of
\* others; a request of an owner or admin that names a member is answered
\* 400, and every request that names a member writes nothing.
C28_OneMembershipPerUser ==
    /\ \A p \in ProjectIds, u \in Users : Cardinality(MembershipRows(p, u)) <= 1
    /\ \A current_user \in Users, p \in ProjectIds, u \in Users, role \in Roles,
          ok \in BOOLEAN :
           MembershipRows(p, u) # {} =>
               LET r == add_project_member(current_user, p, u, role, EnvOf(ok, TRUE, TRUE)) IN
               /\ r.code = IF check_project_admin(current_user, p) THEN 400 ELSE 403
               /\ WroteNothing(r)

\* C28 witness: of two requests that had both passed the member check for
\* the same user and project, the second insert was refused: the request was
\* answered 500 and the user has the one row of the first.
C28_Witness ==
    /\ last.op = "add_project_member" /\ last.code = 500
    /\ \E p \in ProjectIds, u \in Users :
           /\ Cardinality(MembershipRows(p, u)) = 1
           /\ projects[p].owner_id # u

\* The "Deadline Reminder" rows of today for an assignee and a task.
ReminderRows(u, t) ==
    {i \in 1..Len(notifications) :
        /\ notifications[i].user_id = u /\ notifications[i].task_id = t
        /\ notifications[i].title = "Deadline Reminder"
        /\ notifications[i].created_at = today}

\* A run inserted at most one row for each task, a pair of assignee and task
\* has at most one row of the day per run that can overlap, and no run has
\* let an exception out.
C25_OneRowPerPairPerRun ==
    /\ \A worker \in Workers :
           running[worker].op = "check_upcoming_deadlines" =>
               \A j, k \in 1..Len(running[worker].inserted) :
                   running[worker].inserted[j] = running[worker].inserted[k] => j = k
    /\ \A u \in Users, t \in 1..Len(tasks) :
           Cardinality(ReminderRows(u, t)) <= MaxRunning
    /\ last.op = "check_upcoming_deadlines" => last.code = 200

\* C25: DeadlineSweep runs that overlap each insert at most one row per
\* assignee and task, and a run passes the check for a pair only while the
\* pair has no row of the day, so a pair has at most as many rows of the day
\* as runs overlapped; every run comes to its end, with no exception let out.
C25_OverlappingSweepsTerminate ==
    /\ []C25_OneRowPerPairPerRun
    /\ [][\A worker \in Workers :
              (/\ running[worker].op = "check_upcoming_deadlines"
               /\ running[worker].at = "count"
               /\ running'[worker].op = "check_upcoming_deadlines"
               /\ running'[worker].at = "days_until_due")
              => LET task == running[worker].tasks[running[worker].i]
                 IN  ReminderRows(task.assignee_id, task.id) = {}]_vars
    /\ \A worker \in Workers :
           (running[worker].op = "check_upcoming_deadlines") ~> (running[worker] = Idle)

\* C25 witness: two runs have ended and left an assignee two reminders of
\* the same task and day.
C25_Witness ==
    /\ \A worker \in Workers : running[worker] = Idle
    /\ last.op = "check_upcoming_deadlines"
    /\ \E u \in Users, t \in 1..Len(tasks) : Cardinality(ReminderRows(u, t)) = 2

====
